---- MODULE Spec2Model ----
(***************************************************************************)
(* Financial calculator of the MDF feasibility-study backend               *)
(* (backend/server.py): calculate_total_investment, calculate_annual_costs,*)
(* calculate_annual_revenue, calculate_npv, calculate_irr,                 *)
(* calculate_payback_period and calculate_financial_results; and the API   *)
(* over the feasibility_projects collection: create_project,               *)
(* update_project, delete_project and get_financial_results.               *)
(*                                                                         *)
(* Numbers.  Every FinancialData field is modelled with an integer value   *)
(* (discount_rate an integer percentage).  Sums and products of fields are *)
(* integers.  A quotient is kept exactly, as a fraction [num, den]; the    *)
(* quotient of a division by zero is the ZeroDivisionError Python raises.  *)
(* The discounted sums of calculate_npv and calculate_irr grow past the    *)
(* machine integers of the model checker, so their numerators and          *)
(* denominators are arbitrary-precision integers (Big*, below).            *)
(***************************************************************************)
EXTENDS Integers, Sequences, FiniteSets, Bags, TLC

----------------------------------------------------------------------------
(* Arbitrary-precision integers: a sign and a magnitude, the magnitude a   *)
(* little-endian sequence of limbs in base Radix without high zero limbs   *)
(* (<<>> is zero).                                                         *)

Radix == 10000

RECURSIVE MagNorm(_)
MagNorm(m) ==
    IF m = <<>> THEN <<>>
    ELSE IF m[Len(m)] = 0 THEN MagNorm(SubSeq(m, 1, Len(m) - 1))
    ELSE m

RECURSIVE MagOfNat(_)
MagOfNat(n) ==
    IF n = 0 THEN <<>> ELSE <<n % Radix>> \o MagOfNat(n \div Radix)

RECURSIVE MagAddC(_, _, _)
MagAddC(a, b, c) ==
    IF a = <<>> /\ b = <<>>
    THEN (IF c = 0 THEN <<>> ELSE <<c>>)
    ELSE LET x == IF a = <<>> THEN 0 ELSE Head(a)
             y == IF b = <<>> THEN 0 ELSE Head(b)
             s == x + y + c
         IN  <<s % Radix>> \o MagAddC(IF a = <<>> THEN <<>> ELSE Tail(a),
                                      IF b = <<>> THEN <<>> ELSE Tail(b),
                                      s \div Radix)

(* a - b - c for magnitudes a >= b + c; the result is not normalised. *)
RECURSIVE MagSubB(_, _, _)
MagSubB(a, b, c) ==
    IF a = <<>> THEN <<>>
    ELSE LET y == IF b = <<>> THEN 0 ELSE Head(b)
             d == Head(a) - y - c
         IN  <<IF d < 0 THEN d + Radix ELSE d>>
             \o MagSubB(Tail(a), IF b = <<>> THEN <<>> ELSE Tail(b),
                        IF d < 0 THEN 1 ELSE 0)

(* -1, 0, 1 as a < b, a = b, a > b, comparing from limb i downwards. *)
RECURSIVE MagCmpAt(_, _, _)
MagCmpAt(a, b, i) ==
    IF i = 0 THEN 0
    ELSE IF a[i] < b[i] THEN -1
    ELSE IF a[i] > b[i] THEN 1
    ELSE MagCmpAt(a, b, i - 1)

MagCmp(a, b) ==
    IF Len(a) < Len(b) THEN -1
    ELSE IF Len(a) > Len(b) THEN 1
    ELSE MagCmpAt(a, b, Len(a))

(* a * k + c for a limb k *)
RECURSIVE MagMulC(_, _, _)
MagMulC(a, k, c) ==
    IF a = <<>> THEN MagOfNat(c)
    ELSE LET p == Head(a) * k + c
         IN  <<p % Radix>> \o MagMulC(Tail(a), k, p \div Radix)

BigZero == [sgn |-> 0, mag |-> <<>>]

BigOfInt(n) ==
    IF n = 0 THEN BigZero
    ELSE IF n > 0 THEN [sgn |-> 1, mag |-> MagOfNat(n)]
    ELSE [sgn |-> -1, mag |-> MagOfNat(-n)]

BigNeg(x) == [sgn |-> -x.sgn, mag |-> x.mag]

BigAdd(x, y) ==
    IF x.sgn = 0 THEN y
    ELSE IF y.sgn = 0 THEN x
    ELSE IF x.sgn = y.sgn THEN [sgn |-> x.sgn, mag |-> MagAddC(x.mag, y.mag, 0)]
    ELSE LET c == MagCmp(x.mag, y.mag)
         IN  IF c = 0 THEN BigZero
             ELSE IF c > 0
                  THEN [sgn |-> x.sgn, mag |-> MagNorm(MagSubB(x.mag, y.mag, 0))]
                  ELSE [sgn |-> y.sgn, mag |-> MagNorm(MagSubB(y.mag, x.mag, 0))]

(* a * b, limb by limb *)
RECURSIVE MagMul(_, _)
MagMul(a, b) ==
    IF a = <<>> \/ b = <<>> THEN <<>>
    ELSE LET rest == MagMul(a, Tail(b))
         IN  MagAddC(MagMulC(a, Head(b), 0),
                     IF rest = <<>> THEN <<>> ELSE <<0>> \o rest, 0)

BigMul(x, y) ==
    IF x.sgn = 0 \/ y.sgn = 0 THEN BigZero
    ELSE [sgn |-> x.sgn * y.sgn, mag |-> MagNorm(MagMul(x.mag, y.mag))]

(* x * k for a machine integer k *)
BigMulInt(x, k) ==
    IF x.sgn = 0 \/ k = 0 THEN BigZero
    ELSE IF -Radix < k /\ k < Radix
         THEN [sgn |-> IF k > 0 THEN x.sgn ELSE -x.sgn,
               mag |-> MagMulC(x.mag, IF k > 0 THEN k ELSE -k, 0)]
         ELSE BigMul(x, BigOfInt(k))

RECURSIVE BigMulPow(_, _, _)
(* x * k^e *)
BigMulPow(x, k, e) ==
    IF e <= 0 THEN x ELSE BigMulPow(BigMulInt(x, k), k, e - 1)

(* -1, 0, 1 as x < y, x = y, x > y *)
BigCmp(x, y) == BigAdd(x, BigNeg(y)).sgn

----------------------------------------------------------------------------
(* Outcomes of a call: a returned value, or a raised exception.            *)

Returned(v) == [exc |-> "none", val |-> v]

Raised(e) == [exc |-> e, val |-> 0]

(* Fractions over machine integers (payback_period, roi). *)
Frac(n, d) == [num |-> n, den |-> d]

(* float('inf'), server.py line 192 *)
Inf == [num |-> 1, den |-> 0]

(* Python's a / b on floats: ZeroDivisionError when b is zero. *)
Div(a, b) ==
    IF b = 0 THEN Raised("ZeroDivisionError") ELSE Returned(Frac(a, b))

(* The values of npv and npv_test: num / base^exp, the base being          *)
(* 100 + rate for the rate the sum is discounted at.                       *)
Amount(n, b, e) == [num |-> n, base |-> b, exp |-> e]

(* the float an integer converts to *)
AmountOfInt(n) == Amount(BigOfInt(n), 1, 0)

(* -1, 0, 1: the sign of base^exp (base # 0 where exp > 0) *)
PowSign(b, e) == IF b < 0 /\ e % 2 = 1 THEN -1 ELSE 1

(* -1, 0, 1: the sign of an amount *)
AmountSign(a) == a.num.sgn * PowSign(a.base, a.exp)

Percent == 100

MonthsPerYear == 12

(* DiscountFactor with `1 + rate // 100` *)
DiscountFactorFloorDiv(rate, year) ==
    [base |-> Percent * (1 + (rate \div Percent)), exp |-> year]

(* (1 + rate / 100) ** year, as (base / 100)^exp with base = 100 + rate *)
DiscountFactor(rate, year) == [base |-> Percent + rate, exp |-> year]

(* annual_net_cash_flow / discount_factor:                                 *)
(* cash / (base/100)^exp = cash * 100^exp / base^exp                       *)
DivByFactor(cash, factor) ==
    IF factor.base = 0 /\ factor.exp > 0 THEN Raised("ZeroDivisionError")
    ELSE Returned(Amount(BigMulPow(BigOfInt(cash), Percent, factor.exp),
                         factor.base, factor.exp))

(* npv += term: the sum of two amounts over powers of one base, taken over *)
(* the higher power                                                        *)
AmountAdd(a, b) ==
    IF a.exp <= b.exp
    THEN Amount(BigAdd(BigMulPow(a.num, b.base, b.exp - a.exp), b.num),
                b.base, b.exp)
    ELSE Amount(BigAdd(a.num, BigMulPow(b.num, a.base, a.exp - b.exp)),
                a.base, a.exp)

----------------------------------------------------------------------------
(* Financial Calculation Functions                                          *)

(* calculate_total_investment with working_capital counted twice *)
calculate_total_investment_working_capital_twice(financial_data) ==
    financial_data.land_cost
    + financial_data.building_construction
    + financial_data.machinery_equipment
    + financial_data.installation_cost
    + financial_data.pre_operational_expenses
    + financial_data.working_capital
    + financial_data.working_capital

calculate_total_investment(financial_data) ==
    financial_data.land_cost
    + financial_data.building_construction
    + financial_data.machinery_equipment
    + financial_data.installation_cost
    + financial_data.pre_operational_expenses
    + financial_data.working_capital

(* calculate_annual_costs with the adhesive and chemicals costs added to   *)
(* the raw-material cost per unit                                          *)
calculate_annual_costs_with_additives(financial_data) ==
    LET monthly_costs == financial_data.labor_cost_monthly
                         + financial_data.maintenance_cost_monthly
                         + financial_data.utilities_cost_monthly
                         + financial_data.administrative_cost_monthly
        annual_production ==
            financial_data.production_capacity_monthly * MonthsPerYear
        raw_material_cost ==
            annual_production * (financial_data.palm_fronds_cost_per_ton
                                 + financial_data.adhesive_cost
                                 + financial_data.chemicals_cost)
    IN  (monthly_costs * MonthsPerYear) + raw_material_cost

calculate_annual_costs(financial_data) ==
    LET monthly_costs == financial_data.labor_cost_monthly
                         + financial_data.maintenance_cost_monthly
                         + financial_data.utilities_cost_monthly
                         + financial_data.administrative_cost_monthly
        annual_production == financial_data.production_capacity_monthly * MonthsPerYear
        raw_material_cost == annual_production * financial_data.palm_fronds_cost_per_ton
    IN  (monthly_costs * MonthsPerYear) + raw_material_cost

calculate_annual_revenue(financial_data) ==
    LET annual_production == financial_data.production_capacity_monthly * MonthsPerYear
    IN  annual_production * financial_data.mdf_price_per_cubic_meter

(* for year in range(1, project_life_years + 1): npv += cash / factor *)
RECURSIVE NpvLoop(_, _, _, _, _)
NpvLoop(annual_net_cash_flow, rate, life, year, npv) ==
    IF year > life THEN Returned(npv)
    ELSE LET term == DivByFactor(annual_net_cash_flow, DiscountFactor(rate, year))
         IN  IF term.exc # "none" THEN term
             ELSE NpvLoop(annual_net_cash_flow, rate, life, year + 1,
                          AmountAdd(npv, term.val))

(* calculate_npv with `for year in range(1, project_life_years)` *)
calculate_npv_short_loop(financial_data) ==
    LET total_investment == calculate_total_investment(financial_data)
        annual_revenue == calculate_annual_revenue(financial_data)
        annual_costs == calculate_annual_costs(financial_data)
        annual_net_cash_flow == annual_revenue - annual_costs
    IN  NpvLoop(annual_net_cash_flow, financial_data.discount_rate,
                financial_data.project_life_years - 1, 1,
                AmountOfInt(-total_investment))

calculate_npv(financial_data) ==
    LET total_investment == calculate_total_investment(financial_data)
        annual_revenue == calculate_annual_revenue(financial_data)
        annual_costs == calculate_annual_costs(financial_data)
        annual_net_cash_flow == annual_revenue - annual_costs
    IN  NpvLoop(annual_net_cash_flow, financial_data.discount_rate,
                financial_data.project_life_years, 1,
                AmountOfInt(-total_investment))

SweepStart == 1

SweepStop == 100

Saturated == 99

(* the inner loop of calculate_irr: npv_test at one candidate rate *)
RECURSIVE NpvTestLoop(_, _, _, _, _)
NpvTestLoop(annual_net_cash_flow, rate, life, year, npv_test) ==
    IF year > life THEN Returned(npv_test)
    ELSE LET term == DivByFactor(annual_net_cash_flow, DiscountFactor(rate, year))
         IN  IF term.exc # "none" THEN term
             ELSE NpvTestLoop(annual_net_cash_flow, rate, life, year + 1,
                              AmountAdd(npv_test, term.val))

(* the body of `for rate in range(1, 100)` at one rate: the value it      *)
(* returns, or FellThrough when it ends without a return                   *)
FellThrough == [exc |-> "fell through", val |-> 0]

(* IrrBody with `if npv_test < 0` *)
IrrBodyStrictTest(total_investment, annual_net_cash_flow, life, rate) ==
    LET npv_test == NpvTestLoop(annual_net_cash_flow, rate, life, 1,
                        AmountOfInt(-total_investment))
    IN  IF npv_test.exc # "none" THEN npv_test
        ELSE IF AmountSign(npv_test.val) < 0 THEN Returned(rate - 1)
        ELSE FellThrough

(* IrrBody with `return rate` *)
IrrBodyReturnsRate(total_investment, annual_net_cash_flow, life, rate) ==
    LET npv_test == NpvTestLoop(annual_net_cash_flow, rate, life, 1,
                        AmountOfInt(-total_investment))
    IN  IF npv_test.exc # "none" THEN npv_test
        ELSE IF AmountSign(npv_test.val) <= 0 THEN Returned(rate)
        ELSE FellThrough

(* IrrBody with `return rate - 2` *)
IrrBodyReturnsTwoBelow(total_investment, annual_net_cash_flow, life, rate) ==
    LET npv_test == NpvTestLoop(annual_net_cash_flow, rate, life, 1,
                        AmountOfInt(-total_investment))
    IN  IF npv_test.exc # "none" THEN npv_test
        ELSE IF AmountSign(npv_test.val) <= 0 THEN Returned(rate - 2)
        ELSE FellThrough

IrrBody(total_investment, annual_net_cash_flow, life, rate) ==
    LET npv_test == NpvTestLoop(annual_net_cash_flow, rate, life, 1,
                        AmountOfInt(-total_investment))
    IN  IF npv_test.exc # "none" THEN npv_test
        ELSE IF AmountSign(npv_test.val) <= 0 THEN Returned(rate - 1)
        ELSE FellThrough

(* the loop over the rates lo .. hi, in ascending order: the loop over the *)
(* lower half of the range and, when that one ends without a return, the   *)
(* loop over the upper half                                                *)
RECURSIVE IrrSweep(_, _, _, _, _)
IrrSweep(total_investment, annual_net_cash_flow, life, lo, hi) ==
    IF lo > hi THEN FellThrough
    ELSE IF lo = hi
         THEN IrrBody(total_investment, annual_net_cash_flow, life, lo)
         ELSE LET mid == (lo + hi) \div 2
                  lower == IrrSweep(total_investment, annual_net_cash_flow,
                                    life, lo, mid)
              IN  IF lower # FellThrough THEN lower
                  ELSE IrrSweep(total_investment, annual_net_cash_flow, life,
                                mid + 1, hi)

(* IrrOf with the guard `if annual_net_cash_flow <= 0` alone *)
IrrOfNoInvestmentGuard(total_investment, annual_net_cash_flow, life) ==
    IF annual_net_cash_flow <= 0
    THEN Returned(0)
    ELSE LET swept == IrrSweep(total_investment, annual_net_cash_flow, life,
                               SweepStart, SweepStop - 1)
         IN  IF swept = FellThrough THEN Returned(Saturated) ELSE swept

(* IrrOf with `for rate in range(1, 99)` *)
IrrOfShortSweep(total_investment, annual_net_cash_flow, life) ==
    IF annual_net_cash_flow <= 0 \/ total_investment <= 0
    THEN Returned(0)
    ELSE LET swept == IrrSweep(total_investment, annual_net_cash_flow, life,
                               SweepStart, SweepStop - 2)
         IN  IF swept = FellThrough THEN Returned(Saturated) ELSE swept

(* calculate_irr from its guard on: lines 170-183 *)
IrrOf(total_investment, annual_net_cash_flow, life) ==
    IF annual_net_cash_flow <= 0 \/ total_investment <= 0
    THEN Returned(0)
    ELSE LET swept == IrrSweep(total_investment, annual_net_cash_flow, life,
                               SweepStart, SweepStop - 1)
         IN  IF swept = FellThrough THEN Returned(Saturated) ELSE swept

calculate_irr(financial_data) ==
    LET total_investment == calculate_total_investment(financial_data)
        annual_revenue == calculate_annual_revenue(financial_data)
        annual_costs == calculate_annual_costs(financial_data)
        annual_net_cash_flow == annual_revenue - annual_costs
    IN  IrrOf(total_investment, annual_net_cash_flow,
              financial_data.project_life_years)

(* calculate_payback_period with the guard `if annual_net_cash_flow < 0` *)
calculate_payback_period_strict_guard(financial_data) ==
    LET total_investment == calculate_total_investment(financial_data)
        annual_revenue == calculate_annual_revenue(financial_data)
        annual_costs == calculate_annual_costs(financial_data)
        annual_net_cash_flow == annual_revenue - annual_costs
    IN  IF annual_net_cash_flow < 0
        THEN Returned(Inf)
        ELSE Div(total_investment, annual_net_cash_flow)

calculate_payback_period(financial_data) ==
    LET total_investment == calculate_total_investment(financial_data)
        annual_revenue == calculate_annual_revenue(financial_data)
        annual_costs == calculate_annual_costs(financial_data)
        annual_net_cash_flow == annual_revenue - annual_costs
    IN  IF annual_net_cash_flow <= 0
        THEN Returned(Inf)
        ELSE Div(total_investment, annual_net_cash_flow)

(* RoiOf with the guard `total_investment != 0` *)
RoiOfNonZeroGuard(annual_profit, total_investment) ==
    IF total_investment # 0
    THEN LET q == Div(annual_profit, total_investment)
         IN  IF q.exc # "none" THEN q
             ELSE Returned(Frac(q.val.num * Percent, q.val.den))
    ELSE Returned(Frac(0, 1))

(* roi = (annual_profit / total_investment) * 100 if total_investment > 0 else 0 *)
RoiOf(annual_profit, total_investment) ==
    IF total_investment > 0
    THEN LET q == Div(annual_profit, total_investment)
         IN  IF q.exc # "none" THEN q
             ELSE Returned(Frac(q.val.num * Percent, q.val.den))
    ELSE Returned(Frac(0, 1))

(* IsFeasible with `irr >= financial_data.discount_rate` *)
IsFeasibleAtTheRate(npv, irr, discount_rate) ==
    AmountSign(npv) > 0 /\ irr >= discount_rate

(* IsFeasible with `npv > 0` alone *)
IsFeasibleNpvOnly(npv, irr, discount_rate) ==
    AmountSign(npv) > 0

(* npv > 0 and irr > financial_data.discount_rate *)
IsFeasible(npv, irr, discount_rate) ==
    AmountSign(npv) > 0 /\ irr > discount_rate

calculate_financial_results(financial_data) ==
    LET total_investment == calculate_total_investment(financial_data)
        annual_revenue == calculate_annual_revenue(financial_data)
        annual_costs == calculate_annual_costs(financial_data)
        annual_profit == annual_revenue - annual_costs
        npv == calculate_npv(financial_data)
        irr == calculate_irr(financial_data)
        payback_period == calculate_payback_period(financial_data)
        roi == RoiOf(annual_profit, total_investment)
    IN  IF npv.exc # "none" THEN npv
        ELSE IF irr.exc # "none" THEN irr
        ELSE IF payback_period.exc # "none" THEN payback_period
        ELSE IF roi.exc # "none" THEN roi
        ELSE Returned([total_investment |-> total_investment,
                       annual_revenue |-> annual_revenue,
                       annual_costs |-> annual_costs,
                       annual_profit |-> annual_profit,
                       npv |-> npv.val,
                       irr |-> irr.val,
                       payback_period |-> payback_period.val,
                       roi |-> roi.val,
                       is_feasible |-> IsFeasible(npv.val, irr.val,
                                           financial_data.discount_rate)])

----------------------------------------------------------------------------
(* The inputs.  MaxLife bounds project_life_years. *)

MaxLife == 3

FieldNames ==
    {"land_cost", "building_construction", "machinery_equipment",
     "installation_cost", "pre_operational_expenses", "working_capital",
     "palm_fronds_cost_per_ton", "adhesive_cost", "chemicals_cost",
     "energy_cost_per_unit", "labor_cost_monthly", "maintenance_cost_monthly",
     "utilities_cost_monthly", "administrative_cost_monthly",
     "mdf_price_per_cubic_meter", "production_capacity_monthly",
     "project_life_years", "discount_rate", "tax_rate"}

(* FinancialData(): every field at its default *)
FinancialDataDefaults ==
    [land_cost |-> 0, building_construction |-> 0, machinery_equipment |-> 0,
     installation_cost |-> 0, pre_operational_expenses |-> 0,
     working_capital |-> 0,
     palm_fronds_cost_per_ton |-> 0, adhesive_cost |-> 0, chemicals_cost |-> 0,
     energy_cost_per_unit |-> 0,
     labor_cost_monthly |-> 0, maintenance_cost_monthly |-> 0,
     utilities_cost_monthly |-> 0, administrative_cost_monthly |-> 0,
     mdf_price_per_cubic_meter |-> 0, production_capacity_monthly |-> 0,
     project_life_years |-> 10, discount_rate |-> 10, tax_rate |-> 15]

(* initial investment costs: land_cost, building_construction,            *)
(* machinery_equipment, installation_cost, pre_operational_expenses,       *)
(* working_capital                                                         *)
InvestmentChoices ==
    {<<0, 0, 0, 0, 0, 0>>, <<100, 0, 0, 0, 0, 0>>, <<5, 30, 40, 6, 2, 8>>,
     <<50, 100, 100, 20, 10, 20>>, <<-100, 0, 0, 0, 0, 0>>,
     <<-50, 20, 30, 0, 0, 0>>}

(* operational costs: labor_cost_monthly, maintenance_cost_monthly,        *)
(* utilities_cost_monthly, administrative_cost_monthly                     *)
MonthlyChoices == {<<0, 0, 0, 0>>, <<1, 0, 0, 0>>, <<2, 1, 1, 1>>}

(* palm_fronds_cost_per_ton, mdf_price_per_cubic_meter,                    *)
(* production_capacity_monthly                                             *)
UnitChoices ==
    {<<0, 0, 0>>, <<1, 0, 1>>, <<0, 8, 1>>, <<1, 8, 1>>, <<0, 10, 1>>,
     <<1, 10, 2>>}

LifeChoices == -1 .. MaxLife

RateChoices == {-150, -100, 0, 7, 19, 20, 120}

MkInput(inv, mon, unit, life, rate) ==
    [FinancialDataDefaults EXCEPT
        !.land_cost = inv[1], !.building_construction = inv[2],
        !.machinery_equipment = inv[3], !.installation_cost = inv[4],
        !.pre_operational_expenses = inv[5], !.working_capital = inv[6],
        !.labor_cost_monthly = mon[1], !.maintenance_cost_monthly = mon[2],
        !.utilities_cost_monthly = mon[3],
        !.administrative_cost_monthly = mon[4],
        !.palm_fronds_cost_per_ton = unit[1],
        !.mdf_price_per_cubic_meter = unit[2],
        !.production_capacity_monthly = unit[3],
        !.project_life_years = life, !.discount_rate = rate]

(* the sample financial data of backend_test.py (energy_cost_per_unit,     *)
(* 0.5 there, is read by no formula and is given an integer here)          *)
SampleFinancialData ==
    [land_cost |-> 500000, building_construction |-> 2000000,
     machinery_equipment |-> 3000000, installation_cost |-> 200000,
     pre_operational_expenses |-> 100000, working_capital |-> 300000,
     palm_fronds_cost_per_ton |-> 150, adhesive_cost |-> 50000,
     chemicals_cost |-> 30000, energy_cost_per_unit |-> 1,
     labor_cost_monthly |-> 50000, maintenance_cost_monthly |-> 15000,
     utilities_cost_monthly |-> 20000, administrative_cost_monthly |-> 10000,
     mdf_price_per_cubic_meter |-> 800, production_capacity_monthly |-> 1000,
     project_life_years |-> 10, discount_rate |-> 10, tax_rate |-> 15]

Inputs ==
    {MkInput(inv, mon, unit, life, rate) :
        inv \in InvestmentChoices, mon \in MonthlyChoices,
        unit \in UnitChoices, life \in LifeChoices, rate \in RateChoices}
    \cup {FinancialDataDefaults, SampleFinancialData}

----------------------------------------------------------------------------
(* The state.  Of the calculator: the FinancialData handed to it, the      *)
(* function called on it ("none" before the call) and the outcome of the   *)
(* call.  Of the API: the collection db.feasibility_projects (a document   *)
(* per stored project id), the ids create_project has issued,              *)
(* the update_project requests suspended at an await, and what the last    *)
(* step answered.                                                          *)

VARIABLES financial_data, fn, ret

VARIABLES feasibility_projects, issued, in_flight, response

calculator_vars == <<financial_data, fn, ret>>

api_vars == <<feasibility_projects, issued, in_flight, response>>

vars == <<financial_data, fn, ret,
          feasibility_projects, issued, in_flight, response>>

(* Optional[...]: None, or the value *)
None == <<>>

Some(x) == <<x>>

(* the update_project requests that may be suspended at an await at one   *)
(* time; in_flight is the bag of them                                      *)
MaxInFlight == 2

(* a step that answers no request *)
NoResponse == [handler |-> "none"]

(* the API before any request: an empty collection *)
ApiStart ==
    /\ feasibility_projects = << >>
    /\ issued = {}
    /\ in_flight = EmptyBag
    /\ response = NoResponse

Init ==
    /\ financial_data \in Inputs
    /\ fn = "none"
    /\ ret = Returned(0)
    /\ ApiStart

CallCalculateNpv ==
    /\ fn = "none"
    /\ fn' = "calculate_npv"
    /\ ret' = calculate_npv(financial_data)
    /\ UNCHANGED financial_data
    /\ UNCHANGED api_vars

CallCalculateIrr ==
    /\ fn = "none"
    /\ fn' = "calculate_irr"
    /\ ret' = calculate_irr(financial_data)
    /\ UNCHANGED financial_data
    /\ UNCHANGED api_vars

CallCalculatePaybackPeriod ==
    /\ fn = "none"
    /\ fn' = "calculate_payback_period"
    /\ ret' = calculate_payback_period(financial_data)
    /\ UNCHANGED financial_data
    /\ UNCHANGED api_vars

CallCalculateFinancialResults ==
    /\ fn = "none"
    /\ fn' = "calculate_financial_results"
    /\ ret' = calculate_financial_results(financial_data)
    /\ UNCHANGED financial_data
    /\ UNCHANGED api_vars

Next ==
    \/ CallCalculateNpv
    \/ CallCalculateIrr
    \/ CallCalculatePaybackPeriod
    \/ CallCalculateFinancialResults

Spec == Init /\ [][Next]_vars

----------------------------------------------------------------------------
(* The API over db.feasibility_projects.  A handler runs without           *)
(* interruption between two awaits; every await is one database operation, *)
(* and requests interleave at the awaits.                                  *)

(* Project ids.  Every database operation of the handlers names one id   *)
(* ({"id": project_id}), so the model follows one project: NewIds are the  *)
(* uuid4 values create_project draws, ProjectIds the ids requests name,    *)
(* one of them an id no project ever has.                                  *)
NewIds == {1}

ProjectIds == NewIds \cup {2}

(* the FinancialData the clients send: a profitable one-year project, the  *)
(* all-default input, and an input on which calculate_npv raises           *)
ProfitableFinancialData ==
    MkInput(<<100, 0, 0, 0, 0, 0>>, <<1, 0, 0, 0>>, <<0, 10, 1>>, 1, 0)

RaisingFinancialData ==
    MkInput(<<0, 0, 0, 0, 0, 0>>, <<0, 0, 0, 0>>, <<0, 0, 0>>, 1, -100)

ApiFinancialData ==
    {ProfitableFinancialData, FinancialDataDefaults, RaisingFinancialData}

(* TechnicalData and MarketData as the tests send them (numeric fields)    *)
SampleTechnicalData ==
    [daily_production_capacity |-> 40, working_days_per_month |-> 26,
     factory_area_required |-> 5000, electricity_requirement_kw |-> 500,
     water_requirement_daily |-> 10000, labor_requirement |-> 25]

SampleMarketData ==
    [target_market_size |-> 50000000, market_share_target |-> 2]

(* ProjectUpdate: each of the three parts is optional *)
ProjectUpdate(fd, td, md) ==
    [financial_data |-> fd, technical_data |-> td, market_data |-> md]

(* the updates the clients send: financial data alone, technical data      *)
(* alone, market data alone, technical and market data, all three          *)
ProjectUpdates ==
    {ProjectUpdate(Some(fd), None, None) : fd \in ApiFinancialData}
    \cup {ProjectUpdate(None, Some(SampleTechnicalData), None),
          ProjectUpdate(None, None, Some(SampleMarketData)),
          ProjectUpdate(None, Some(SampleTechnicalData),
                        Some(SampleMarketData)),
          ProjectUpdate(Some(ProfitableFinancialData),
                        Some(SampleTechnicalData), Some(SampleMarketData))}

(* FeasibilityProject(project_name=...) as create_project stores it; the   *)
(* project_name and the two timestamps, which no handler reads back into   *)
(* a decision, are left out of the document                                *)
NewProject(id) ==
    [id |-> id, financial_data |-> None, technical_data |-> None,
     market_data |-> None, financial_results |-> None,
     is_completed |-> FALSE]

(* find_one({"id": project_id}): the document, or None *)
find_one(project_id) ==
    IF project_id \in DOMAIN feasibility_projects
    THEN Some(feasibility_projects[project_id])
    ELSE None

(* HTTPException(status_code=..., detail=...) *)
HTTPException(handler, project_id, status_code) ==
    [handler |-> handler, project_id |-> project_id,
     status |-> status_code, exc |-> "HTTPException", body |-> None]

(* an exception no handler catches: the server answers 500 *)
Unhandled(handler, project_id, exc) ==
    [handler |-> handler, project_id |-> project_id,
     status |-> 500, exc |-> exc, body |-> None]

(* the handler returns a value *)
Ok(handler, project_id, body) ==
    [handler |-> handler, project_id |-> project_id,
     status |-> 200, exc |-> "none", body |-> Some(body)]

(* create_project: a fresh id, insert_one, the project returned *)
create_project ==
    \E id \in NewIds \ issued :
        /\ LET project == NewProject(id)
           IN  /\ feasibility_projects' =
                      [i \in DOMAIN feasibility_projects \cup {id} |->
                          IF i = id THEN project ELSE feasibility_projects[i]]
               /\ response' = Ok("create_project", id, project)
        /\ issued' = issued \cup {id}
        /\ UNCHANGED in_flight
        /\ UNCHANGED calculator_vars

(* update_dict of update_project, lines 266-281: a key that is not set is  *)
(* None; raises what calculate_financial_results raises                    *)
UpdateDict(update_data) ==
    LET results == IF update_data.financial_data = None THEN Returned(0)
                   ELSE calculate_financial_results(update_data.financial_data[1])
    IN  IF results.exc # "none" THEN results
        ELSE Returned(
            [financial_data |-> update_data.financial_data,
             financial_results |->
                 IF update_data.financial_data = None THEN None
                 ELSE Some(results.val),
             technical_data |-> update_data.technical_data,
             market_data |-> update_data.market_data,
             is_completed |->
                 IF /\ update_data.financial_data # None
                    /\ update_data.technical_data # None
                    /\ update_data.market_data # None
                 THEN Some(TRUE) ELSE None])

(* SetFields that keeps the financial_results a document already has *)
SetFieldsKeepResults(project, update_dict) ==
    [id |-> project.id,
     financial_data |->
         IF update_dict.financial_data = None THEN project.financial_data
         ELSE update_dict.financial_data,
     financial_results |->
         IF project.financial_results # None THEN project.financial_results
         ELSE update_dict.financial_results,
     technical_data |->
         IF update_dict.technical_data = None THEN project.technical_data
         ELSE update_dict.technical_data,
     market_data |->
         IF update_dict.market_data = None THEN project.market_data
         ELSE update_dict.market_data,
     is_completed |->
         IF update_dict.is_completed = None THEN project.is_completed
         ELSE update_dict.is_completed[1]]

(* {"$set": update_dict} on one document *)
SetFields(project, update_dict) ==
    [id |-> project.id,
     financial_data |->
         IF update_dict.financial_data = None THEN project.financial_data
         ELSE update_dict.financial_data,
     financial_results |->
         IF update_dict.financial_results = None THEN project.financial_results
         ELSE update_dict.financial_results,
     technical_data |->
         IF update_dict.technical_data = None THEN project.technical_data
         ELSE update_dict.technical_data,
     market_data |->
         IF update_dict.market_data = None THEN project.market_data
         ELSE update_dict.market_data,
     is_completed |->
         IF update_dict.is_completed = None THEN project.is_completed
         ELSE update_dict.is_completed[1]]

(* update_project up to its second await, lines 262-283: find_one, 404 for *)
(* no document, the update_dict                                            *)
update_project_find_one ==
    \E update_data \in ProjectUpdates :
        LET update_dict == UpdateDict(update_data)
        IN  \E project_id \in ProjectIds :
                /\ IF find_one(project_id) = None
                   THEN /\ response' =
                              HTTPException("update_project", project_id, 404)
                        /\ UNCHANGED in_flight
                   ELSE IF update_dict.exc # "none"
                   THEN /\ response' =
                              Unhandled("update_project", project_id,
                                        update_dict.exc)
                        /\ UNCHANGED in_flight
                   ELSE /\ BagCardinality(in_flight) < MaxInFlight
                        /\ in_flight' =
                              in_flight (+) SetToBag(
                                  {[pc |-> "update_one",
                                    project_id |-> project_id,
                                    update_dict |-> update_dict.val]})
                        /\ response' = NoResponse
                /\ UNCHANGED <<feasibility_projects, issued>>
                /\ UNCHANGED calculator_vars

(* update_project, lines 285-288: update_one sets the fields of the        *)
(* document with the id, if there is one                                   *)
update_project_update_one ==
    \E request \in BagToSet(in_flight) :
        /\ request.pc = "update_one"
        /\ feasibility_projects' =
               IF request.project_id \in DOMAIN feasibility_projects
               THEN [feasibility_projects EXCEPT
                        ![request.project_id] =
                            SetFields(@, request.update_dict)]
               ELSE feasibility_projects
        /\ in_flight' =
               (in_flight (-) SetToBag({request}))
               (+) SetToBag({[request EXCEPT !.pc = "fetch"]})
        /\ response' = NoResponse
        /\ UNCHANGED issued
        /\ UNCHANGED calculator_vars

(* update_project, lines 291-298: the second find_one, and                 *)
(* updated_project.get(...) on what it found                               *)
update_project_fetch ==
    \E request \in BagToSet(in_flight) :
        /\ request.pc = "fetch"
        /\ LET updated_project == find_one(request.project_id)
           IN  response' =
                   IF updated_project = None
                   THEN Unhandled("update_project", request.project_id,
                                  "AttributeError")
                   ELSE Ok("update_project", request.project_id,
                           updated_project[1])
        /\ in_flight' = in_flight (-) SetToBag({request})
        /\ UNCHANGED <<feasibility_projects, issued>>
        /\ UNCHANGED calculator_vars

(* delete_project: delete_one, 404 when nothing was deleted *)
delete_project ==
    \E project_id \in ProjectIds :
        /\ IF project_id \in DOMAIN feasibility_projects
           THEN /\ feasibility_projects' =
                      [i \in DOMAIN feasibility_projects \ {project_id} |->
                          feasibility_projects[i]]
                /\ response' = Ok("delete_project", project_id, "deleted")
           ELSE /\ response' =
                      HTTPException("delete_project", project_id, 404)
                /\ UNCHANGED feasibility_projects
        /\ UNCHANGED <<issued, in_flight>>
        /\ UNCHANGED calculator_vars

(* get_financial_results that computes on FinancialData() when the        *)
(* document has no financial_data                                          *)
get_financial_results_defaulting ==
    \E project_id \in ProjectIds :
        /\ LET project == find_one(project_id)
           IN  response' =
                   IF project = None
                   THEN HTTPException("get_financial_results", project_id, 404)
                   ELSE LET stored == IF project[1].financial_data = None
                                      THEN FinancialDataDefaults
                                      ELSE project[1].financial_data[1]
                            results == calculate_financial_results(stored)
                        IN  IF results.exc # "none"
                            THEN Unhandled("get_financial_results",
                                           project_id, results.exc)
                            ELSE Ok("get_financial_results", project_id,
                                    results.val)
        /\ UNCHANGED <<feasibility_projects, issued, in_flight>>
        /\ UNCHANGED calculator_vars

(* get_financial_results: 404 for no document, 400 for a document without *)
(* financial_data, else the results computed from the stored data          *)
get_financial_results ==
    \E project_id \in ProjectIds :
        /\ LET project == find_one(project_id)
           IN  response' =
                   IF project = None
                   THEN HTTPException("get_financial_results", project_id, 404)
                   ELSE IF project[1].financial_data = None
                   THEN HTTPException("get_financial_results", project_id, 400)
                   ELSE LET results == calculate_financial_results(
                                           project[1].financial_data[1])
                        IN  IF results.exc # "none"
                            THEN Unhandled("get_financial_results",
                                           project_id, results.exc)
                            ELSE Ok("get_financial_results", project_id,
                                    results.val)
        /\ UNCHANGED <<feasibility_projects, issued, in_flight>>
        /\ UNCHANGED calculator_vars

InitApi ==
    /\ financial_data = FinancialDataDefaults
    /\ fn = "none"
    /\ ret = Returned(0)
    /\ ApiStart

NextApi ==
    \/ create_project
    \/ update_project_find_one
    \/ update_project_update_one
    \/ update_project_fetch
    \/ delete_project
    \/ get_financial_results

SpecApi == InitApi /\ [][NextApi]_vars
----------------------------------------------------------------------------
(* Vocabulary of the properties.                                           *)

AnnualProfit(fd) == calculate_annual_revenue(fd) - calculate_annual_costs(fd)

TotalInvestment(fd) == calculate_total_investment(fd)

(* the sweep's precondition: positive profit and positive investment *)
Sweepable(fd) == AnnualProfit(fd) > 0 /\ TotalInvestment(fd) > 0

(* the sign of the NPV that calculate_npv computes with discount rate r,   *)
(* every other field of fd kept: -1, 0, 1, or 2 when the call raises       *)
NpvSignAt(fd, r) ==
    LET out == calculate_npv([fd EXCEPT !.discount_rate = r])
    IN  IF out.exc = "none" THEN AmountSign(out.val) ELSE 2

(* the rates of 1..99 at which the NPV is not positive *)
NonPositiveRates(fd) == {r \in 1 .. 99 : NpvSignAt(fd, r) <= 0}

Least(S) == CHOOSE m \in S : \A k \in S : m <= k

----------------------------------------------------------------------------
(* C1.  For an input with annual profit > 0 and total investment > 0,      *)
(* calculate_irr returns r - 1, where r is the smallest rate of 1..99 at   *)
(* which the NPV computed with rate r is <= 0.                             *)
C1_IrrIsFirstNonPositiveRateMinusOne ==
    (/\ fn = "calculate_irr"
     /\ Sweepable(financial_data)
     /\ NonPositiveRates(financial_data) # {})
    => ret = Returned(Least(NonPositiveRates(financial_data)) - 1)

(* the sweep stopped at rate 20, where the NPV is exactly zero *)
C1_Witness ==
    /\ fn = "calculate_irr"
    /\ Sweepable(financial_data)
    /\ NpvSignAt(financial_data, 19) = 1
    /\ NpvSignAt(financial_data, 20) = 0
    /\ ret = Returned(19)

(* C2, as claimed.  For an input with annual profit > 0 and total          *)
(* investment > 0, the NPV at the rate calculate_irr returns is > 0 and,   *)
(* unless the result is 99, the NPV at the next integer rate is <= 0.      *)
(* (Stated on the inputs with project_life_years >= 1, the ones the data   *)
(* model calls meaningful.)                                                *)
C2_ReturnedRateHasPositiveNpv ==
    (/\ fn = "calculate_irr"
     /\ Sweepable(financial_data)
     /\ financial_data.project_life_years >= 1)
    => /\ ret.exc = "none"
       /\ NpvSignAt(financial_data, ret.val) = 1
       /\ ret.val # 99 => NpvSignAt(financial_data, ret.val + 1) <= 0

(* C2, amended.  For an input with annual profit > 0 and total investment  *)
(* > 0: when calculate_irr returns a rate >= 1 the NPV at that rate is     *)
(* > 0, and when it returns a rate other than 99 the NPV at the next       *)
(* integer rate is <= 0.  (A returned 0 says only that the NPV at rate 1   *)
(* is <= 0.)                                                               *)
C2_ReturnedRateIsLastPositiveOfTheSweep ==
    (fn = "calculate_irr" /\ Sweepable(financial_data))
    => /\ ret.exc = "none"
       /\ ret.val \in 0 .. 99
       /\ ret.val >= 1 => NpvSignAt(financial_data, ret.val) = 1
       /\ ret.val # 99 => NpvSignAt(financial_data, ret.val + 1) <= 0

(* a rate strictly inside the sweep is returned *)
C2_Witness ==
    /\ fn = "calculate_irr"
    /\ Sweepable(financial_data)
    /\ ret.exc = "none"
    /\ ret.val \in 1 .. 98
    /\ NpvSignAt(financial_data, ret.val + 1) = -1

(* C3.  calculate_irr returns 0 whenever annual profit <= 0 or total       *)
(* investment <= 0, whatever the other fields are.                         *)
C3_IrrSentinelOnDegenerateInput ==
    (/\ fn = "calculate_irr"
     /\ (AnnualProfit(financial_data) <= 0 \/ TotalInvestment(financial_data) <= 0))
    => ret = Returned(0)

(* the investment guard alone decides: profit is positive, the project     *)
(* has years to discount, and the investment is negative                   *)
C3_Witness ==
    /\ fn = "calculate_irr"
    /\ AnnualProfit(financial_data) > 0
    /\ TotalInvestment(financial_data) < 0
    /\ financial_data.project_life_years >= 1
    /\ ret = Returned(0)

(* the spec's example of saturation: total investment 1, annual profit     *)
(* 10,000,000, project life 10                                             *)
SaturationExample == IrrOf(1, 10000000, 10)

(* C4.  calculate_irr returns 99 exactly when annual profit > 0, total     *)
(* investment > 0 and the NPV is positive at every integer rate 1..99;     *)
(* total investment 1, annual profit 10,000,000, life 10 gives 99.         *)
C4_SaturatesExactlyWhenNpvStaysPositive ==
    /\ fn = "calculate_irr"
       => ((ret = Returned(99))
           <=> (/\ Sweepable(financial_data)
                /\ \A r \in 1 .. 99 : NpvSignAt(financial_data, r) = 1))
    /\ SaturationExample = Returned(99)

(* the sweep ran through all 99 rates of a project with years to discount *)
C4_Witness ==
    /\ fn = "calculate_irr"
    /\ Sweepable(financial_data)
    /\ financial_data.project_life_years >= 1
    /\ NpvSignAt(financial_data, 99) = 1
    /\ ret = Returned(99)

(* C5.  In the record calculate_financial_results returns, is_feasible is  *)
(* true exactly when npv > 0 and the irr of the sweep is strictly greater  *)
(* than the input discount_rate.                                           *)
C5_FeasibleIffNpvPositiveAndIrrAboveRate ==
    (fn = "calculate_financial_results" /\ ret.exc = "none")
    => (ret.val.is_feasible
        <=> (/\ NpvSignAt(financial_data, financial_data.discount_rate) = 1
             /\ calculate_irr(financial_data).exc = "none"
             /\ calculate_irr(financial_data).val > financial_data.discount_rate))

(* the boundary: the sweep's irr equals discount_rate while npv > 0 *)
C5_Witness ==
    /\ fn = "calculate_financial_results"
    /\ ret.exc = "none"
    /\ Sweepable(financial_data)
    /\ AmountSign(ret.val.npv) = 1
    /\ ret.val.irr = financial_data.discount_rate
    /\ ret.val.irr >= 1
    /\ ~ret.val.is_feasible

(* C6, as claimed.  calculate_financial_results never ends in an error: it *)
(* returns a result record for every input FinancialData accepts.          *)
C6_FinancialResultsNeverRaises ==
    fn = "calculate_financial_results" => ret.exc = "none"

(* every cost, price and capacity field of fd is zero *)
AllZeroInput(fd) ==
    \A f \in FieldNames \ {"project_life_years", "discount_rate", "tax_rate"} :
        fd[f] = 0

(* the record the claim C7 describes *)
IsAllZeroResult(out) ==
    /\ out.exc = "none"
    /\ out.val.total_investment = 0
    /\ out.val.annual_revenue = 0
    /\ out.val.annual_costs = 0
    /\ out.val.annual_profit = 0
    /\ AmountSign(out.val.npv) = 0
    /\ out.val.irr = 0
    /\ out.val.roi.num = 0 /\ out.val.roi.den # 0
    /\ out.val.payback_period = Inf
    /\ ~out.val.is_feasible

(* C7, as claimed.  For an input whose cost, price and capacity fields are *)
(* all zero, calculate_financial_results returns total_investment,         *)
(* annual_revenue, annual_costs, annual_profit, npv, irr and roi zero,     *)
(* payback_period infinite and is_feasible false.                          *)
C7_AllZeroInputGivesZeroResult ==
    (fn = "calculate_financial_results" /\ AllZeroInput(financial_data))
    => IsAllZeroResult(ret)

(* C7 on the calls that return: the record is the one described whenever   *)
(* calculate_financial_results does not raise.                             *)
C7_AllZeroInputGivesZeroResultIfReturned ==
    (/\ fn = "calculate_financial_results"
     /\ AllZeroInput(financial_data)
     /\ ret.exc = "none")
    => IsAllZeroResult(ret)

BigFrac(n, d) == [num |-> n, den |-> d]

(* an amount as a fraction *)
FracOfAmount(a) == BigFrac(a.num, BigMulPow(BigOfInt(1), a.base, a.exp))

(* -1, 0, 1 as a < b, a = b, a > b, for fractions with non-zero denominators *)
BigFracCmp(a, b) ==
    a.den.sgn * b.den.sgn * BigCmp(BigMul(a.num, b.den), BigMul(b.num, a.den))

(* annual profit from the fields: revenue = monthly capacity x 12 x unit   *)
(* price, cost = (labor + maintenance + utilities + administrative) x 12   *)
(* + monthly capacity x 12 x raw-material cost per ton                     *)
ProfitFormula(fd) ==
    fd.production_capacity_monthly * 12 * fd.mdf_price_per_cubic_meter
    - ((fd.labor_cost_monthly + fd.maintenance_cost_monthly
        + fd.utilities_cost_monthly + fd.administrative_cost_monthly) * 12
       + fd.production_capacity_monthly * 12 * fd.palm_fronds_cost_per_ton)

InvestmentFormula(fd) ==
    fd.land_cost + fd.building_construction + fd.machinery_equipment
    + fd.installation_cost + fd.pre_operational_expenses + fd.working_capital

(* sum over year = first..last of profit / (1 + d/100)^year, over the      *)
(* denominator (100 + d)^last                                              *)
RECURSIVE DiscountedSumNum(_, _, _, _)
DiscountedSumNum(profit, d, year, last) ==
    IF year > last THEN BigZero
    ELSE BigAdd(BigMulPow(BigMulPow(BigOfInt(profit), 100, year),
                          100 + d, last - year),
                DiscountedSumNum(profit, d, year + 1, last))

(* - total investment + sum over year = 1..life of profit/(1 + d/100)^year *)
NpvFormula(fd) ==
    LET life == IF fd.project_life_years > 0 THEN fd.project_life_years ELSE 0
        den == BigMulPow(BigOfInt(1), 100 + fd.discount_rate, life)
    IN  BigFrac(BigAdd(BigMul(BigOfInt(-InvestmentFormula(fd)), den),
                       DiscountedSumNum(ProfitFormula(fd), fd.discount_rate,
                                        1, life)),
                den)

(* the formula has a value: no term divides by zero *)
NpvFormulaDefined(fd) ==
    fd.project_life_years < 1 \/ fd.discount_rate # -100

(* C8.  calculate_npv returns minus the total investment plus the sum,     *)
(* over year = 1..project_life_years, of annual profit divided by          *)
(* (1 + discount_rate/100)^year, annual profit being revenue minus cost    *)
(* as ProfitFormula states them (wherever that sum has a value).           *)
C8_NpvIsDiscountedSum ==
    (fn = "calculate_npv" /\ NpvFormulaDefined(financial_data))
    => /\ ret.exc = "none"
       /\ BigFracCmp(FracOfAmount(ret.val), NpvFormula(financial_data)) = 0

(* a call with several years, a positive rate and every cost group set *)
C8_Witness ==
    /\ fn = "calculate_npv"
    /\ ret.exc = "none"
    /\ financial_data.project_life_years >= 2
    /\ financial_data.discount_rate > 0
    /\ financial_data.palm_fronds_cost_per_ton > 0
    /\ financial_data.labor_cost_monthly > 0
    /\ ProfitFormula(financial_data) > 0
    /\ InvestmentFormula(financial_data) > 0
    /\ AmountSign(ret.val) = 1

(* the rates the NPV is compared at: the inputs' and the sweep's *)
ComparedRates == RateChoices \cup (1 .. 99)

(* what calculate_npv gives for fd at each compared rate *)
NpvByRate(fd) ==
    [d \in ComparedRates |-> calculate_npv([fd EXCEPT !.discount_rate = d])]

(* both calls returned, the first a strictly greater NPV than the second *)
StrictlyGreater(n1, n2) ==
    /\ n1.exc = "none"
    /\ n2.exc = "none"
    /\ BigFracCmp(FracOfAmount(n1.val), FracOfAmount(n2.val)) = 1

C10_PaybackIsQuotientOrInfinity ==
    fn = "calculate_payback_period"
    => /\ ret.exc = "none"
       /\ AnnualProfit(financial_data) > 0
          => /\ ret.val.den # 0
             /\ BigMul(BigOfInt(ret.val.num),
                       BigOfInt(AnnualProfit(financial_data)))
                = BigMul(BigOfInt(TotalInvestment(financial_data)),
                         BigOfInt(ret.val.den))
       /\ AnnualProfit(financial_data) <= 0 => ret.val = Inf

(* the guard's edge: annual profit is exactly zero, investment is not *)
C10_Witness ==
    /\ fn = "calculate_payback_period"
    /\ AnnualProfit(financial_data) = 0
    /\ TotalInvestment(financial_data) > 0
    /\ ret = Returned(Inf)

----------------------------------------------------------------------------
(* C11.  The roi of the record calculate_financial_results returns equals  *)
(* annual profit / total investment x 100 when total investment > 0, and   *)
(* is 0 when total investment <= 0, whatever the annual profit.            *)
C11_RoiIsProfitOverInvestmentOrZero ==
    (fn = "calculate_financial_results" /\ ret.exc = "none")
    => /\ ret.val.roi.den # 0
       /\ TotalInvestment(financial_data) > 0
          => BigMul(BigOfInt(ret.val.roi.num),
                    BigOfInt(TotalInvestment(financial_data)))
             = BigMul(BigOfInt(Percent * AnnualProfit(financial_data)),
                      BigOfInt(ret.val.roi.den))
       /\ TotalInvestment(financial_data) <= 0 => ret.val.roi.num = 0

(* a negative investment with a profit that is not zero: roi is 0 *)
C11_Witness ==
    /\ fn = "calculate_financial_results"
    /\ ret.exc = "none"
    /\ TotalInvestment(financial_data) < 0
    /\ AnnualProfit(financial_data) > 0
    /\ ret.val.roi = Frac(0, 1)

----------------------------------------------------------------------------
(* The reserved fields: FinancialData carries them, no formula reads them. *)
(* Values of adhesive_cost, chemicals_cost, energy_cost_per_unit, tax_rate *)
ReservedChoices ==
    {<<0, 0, 0, 15>>, <<50000, 30000, 1, 15>>, <<7, 3, 9, 40>>}

(* fd with its reserved fields replaced *)
WithReserved(fd, r) ==
    [fd EXCEPT !.adhesive_cost = r[1], !.chemicals_cost = r[2],
               !.energy_cost_per_unit = r[3], !.tax_rate = r[4]]

(* the inputs that agree with fd on every field that is not reserved *)
AgreeingInputs(fd) == {WithReserved(fd, r) : r \in ReservedChoices}

(* C12.  calculate_financial_results is a function of the fields that are  *)
(* not reserved: an input that agrees with the computed one on every field *)
(* other than adhesive_cost, chemicals_cost, energy_cost_per_unit and      *)
(* tax_rate gives the identical outcome (the same record, or the same      *)
(* exception).                                                             *)
C12_ResultIndependentOfReservedFields ==
    fn = "calculate_financial_results"
    => \A other \in AgreeingInputs(financial_data) :
           calculate_financial_results(other) = ret

(* the sample input, whose reserved fields are not at their defaults, and  *)
(* an agreeing input that differs from it                                  *)
C12_Witness ==
    /\ fn = "calculate_financial_results"
    /\ ret.exc = "none"
    /\ financial_data.production_capacity_monthly > 0
    /\ financial_data.adhesive_cost > 0
    /\ \E other \in AgreeingInputs(financial_data) :
           /\ other # financial_data
           /\ other.adhesive_cost # financial_data.adhesive_cost
           /\ calculate_financial_results(other) = ret

----------------------------------------------------------------------------
(* C13.  get_financial_results answers 404 for an id no stored project has *)
(* and 400 for a stored project without financial_data; neither answer     *)
(* carries a result record.  (get_financial_results does not change the    *)
(* collection, so the collection of the state is the one it read.)         *)
C13_MissingDataIsReportedNotComputed ==
    response.handler = "get_financial_results"
    => LET project == find_one(response.project_id)
       IN  /\ project = None
              => response.status = 404 /\ response.body = None
           /\ (project # None /\ project[1].financial_data = None)
              => response.status = 400 /\ response.body = None
           /\ response.status = 200
              => (project # None /\ project[1].financial_data # None)

(* a project that was updated, with technical data only, and is asked for  *)
(* its results: 400                                                        *)
C13_Witness ==
    /\ response.handler = "get_financial_results"
    /\ response.project_id \in DOMAIN feasibility_projects
    /\ feasibility_projects[response.project_id].technical_data # None
    /\ feasibility_projects[response.project_id].financial_data = None
    /\ response.status = 400

(* the stored results of a project are those of its stored financial data  *)
ResultsMatchData(project) ==
    /\ project.financial_results = None <=> project.financial_data = None
    /\ project.financial_data # None
       => LET results ==
                  calculate_financial_results(project.financial_data[1])
          IN  /\ results.exc = "none"
              /\ project.financial_results = Some(results.val)

(* a step changes the financial_data or financial_results of a stored      *)
(* project only if it is the update_one of an update with financial data   *)
OnlyFinancialUpdatesChangeResults ==
    \A id \in DOMAIN feasibility_projects \cap DOMAIN feasibility_projects' :
        (\/ feasibility_projects'[id].financial_data
               # feasibility_projects[id].financial_data
         \/ feasibility_projects'[id].financial_results
               # feasibility_projects[id].financial_results)
        => \E request \in BagToSet(in_flight) :
               /\ request.pc = "update_one"
               /\ request.project_id = id
               /\ request.update_dict.financial_data # None
               /\ in_flight' =
                      (in_flight (-) SetToBag({request}))
                      (+) SetToBag({[request EXCEPT !.pc = "fetch"]})

(* C14.  Every stored project has financial_results exactly when it has    *)
(* financial_data, and then they equal calculate_financial_results of the  *)
(* stored financial_data; and only an update that carries financial data   *)
(* changes either of them.                                                 *)
C14_StoredResultsMatchStoredData ==
    /\ [](\A id \in DOMAIN feasibility_projects :
              ResultsMatchData(feasibility_projects[id]))
    /\ [][OnlyFinancialUpdatesChangeResults]_vars

(* financial data replaced after an update with all three parts: the       *)
(* results stored are those of the later, all-default, data                *)
C14_Witness ==
    \E id \in DOMAIN feasibility_projects :
        /\ feasibility_projects[id].is_completed
        /\ feasibility_projects[id].financial_data
               = Some(FinancialDataDefaults)
        /\ feasibility_projects[id].financial_results
               = Some(calculate_financial_results(FinancialDataDefaults).val)

----------------------------------------------------------------------------
(* the worked scenario: the fields the formulas read *)
IsWorkedScenario(fd) ==
    /\ fd.land_cost = 500000
    /\ fd.building_construction = 2000000
    /\ fd.machinery_equipment = 3000000
    /\ fd.installation_cost = 200000
    /\ fd.pre_operational_expenses = 100000
    /\ fd.working_capital = 300000
    /\ fd.labor_cost_monthly = 50000
    /\ fd.maintenance_cost_monthly = 15000
    /\ fd.utilities_cost_monthly = 20000
    /\ fd.administrative_cost_monthly = 10000
    /\ fd.palm_fronds_cost_per_ton = 150
    /\ fd.mdf_price_per_cubic_meter = 800
    /\ fd.production_capacity_monthly = 1000
    /\ fd.project_life_years = 10
    /\ fd.discount_rate = 10

(* lo / scale <= f < hi / scale, for a fraction f with a positive          *)
(* denominator                                                             *)
FracWithin(f, lo, hi, scale) ==
    /\ f.den > 0
    /\ BigCmp(BigMul(BigOfInt(lo), BigOfInt(f.den)),
              BigMul(BigOfInt(scale), BigOfInt(f.num))) <= 0
    /\ BigCmp(BigMul(BigOfInt(scale), BigOfInt(f.num)),
              BigMul(BigOfInt(hi), BigOfInt(f.den))) < 0

(* C15.  For the worked scenario calculate_financial_results returns total *)
(* investment 6,100,000, annual revenue 9,600,000, annual cost 2,940,000,  *)
(* annual profit 6,660,000, an roi that rounds to 109.2, a payback period  *)
(* that rounds to 0.916, npv > 0, irr 99 and is_feasible true.             *)
C15_WorkedScenario ==
    (fn = "calculate_financial_results" /\ IsWorkedScenario(financial_data))
    => /\ ret.exc = "none"
       /\ ret.val.total_investment = 6100000
       /\ ret.val.annual_revenue = 9600000
       /\ ret.val.annual_costs = 2940000
       /\ ret.val.annual_profit = 6660000
       /\ FracWithin(ret.val.roi, 10915, 10925, 100)
       /\ FracWithin(ret.val.payback_period, 9155, 9165, 10000)
       /\ AmountSign(ret.val.npv) = 1
       /\ ret.val.irr = Saturated
       /\ ret.val.is_feasible

(* the scenario has been computed *)
C15_Witness ==
    /\ fn = "calculate_financial_results"
    /\ IsWorkedScenario(financial_data)
    /\ ret.exc = "none"
    /\ ret.val.total_investment = 6100000
    /\ ret.val.is_feasible

----------------------------------------------------------------------------
(* the project has financial, technical and market data stored *)
HasAllThree(project) ==
    /\ project.financial_data # None
    /\ project.technical_data # None
    /\ project.market_data # None

(* C16, as claimed.  A stored project has is_completed true exactly when   *)
(* it has all three of financial_data, technical_data and market_data      *)
(* stored, whether one update supplied them or several did.                *)
C16_CompletedIffAllThreeStored ==
    \A id \in DOMAIN feasibility_projects :
        feasibility_projects[id].is_completed
        <=> HasAllThree(feasibility_projects[id])

(* C17, as claimed.  An update_project request, interleaved in any way     *)
(* with delete_project requests for the same id, ends with 404 or by       *)
(* returning the stored project; it ends in no other way.  (An update      *)
(* whose financial data makes the calculator raise is set aside: it ends   *)
(* before update_one whatever the interleaving.)                           *)
C17_UpdateEndsNotFoundOrReturnsProject ==
    (/\ response.handler = "update_project"
     /\ response.exc # "ZeroDivisionError")
    => \/ response.status = 404
       \/ /\ response.status = 200
          /\ response.body = find_one(response.project_id)
          /\ response.body # None

----------------------------------------------------------------------------
(* C18.  For an input with annual profit > 0 and total investment > 0 and  *)
(* every whole rate d of 1..99: if calculate_npv with discount rate d is   *)
(* > 0, calculate_irr returns a value >= d.                                *)
C18_PositiveNpvRateIsAtMostIrr ==
    (fn = "calculate_irr" /\ Sweepable(financial_data))
    => /\ ret.exc = "none"
       /\ \A d \in 1 .. 99 :
              NpvSignAt(financial_data, d) = 1 => ret.val >= d

(* the irr is itself a rate with positive NPV, below saturation: the bound *)
(* is attained                                                             *)
C18_Witness ==
    /\ fn = "calculate_irr"
    /\ Sweepable(financial_data)
    /\ ret.exc = "none"
    /\ ret.val >= 1
    /\ ret.val < Saturated
    /\ NpvSignAt(financial_data, ret.val) = 1
    /\ NpvSignAt(financial_data, ret.val + 1) = -1

(* C19.  For an input with discount_rate >= 0, a record with is_feasible   *)
(* true has annual profit > 0, total investment > 0 and a finite payback   *)
(* period.                                                                 *)
C19_FeasibleImpliesPositiveProfitAndInvestment ==
    (/\ fn = "calculate_financial_results"
     /\ ret.exc = "none"
     /\ financial_data.discount_rate >= 0
     /\ ret.val.is_feasible)
    => /\ ret.val.annual_profit > 0
       /\ ret.val.total_investment > 0
       /\ ret.val.payback_period # Inf
       /\ ret.val.payback_period.den # 0

(* a feasible project at a discount rate that is not negative *)
C19_Witness ==
    /\ fn = "calculate_financial_results"
    /\ ret.exc = "none"
    /\ financial_data.discount_rate >= 0
    /\ ret.val.is_feasible
    /\ ret.val.annual_profit > 0
    /\ ret.val.total_investment > 0
    /\ ret.val.payback_period.den # 0
====
